---- MODULE Spec2Model ----
(***************************************************************************)
(* Endpoint health monitor (src/main.py): the live configuration loader    *)
(* (ConfigLoader) and the polling cycle (monitor_endpoints).               *)
(*                                                                         *)
(* A configuration directory holds YAML files.  The loader keeps three     *)
(* dictionaries: endpoints (name -> EndpointConfig), file_endpoints        *)
(* (file -> set of names) and mod_times (file -> modification time).  The  *)
(* polling loop refreshes the loader, prunes domain_stats, probes every    *)
(* endpoint, folds the results into the statistics, reports and sleeps.    *)
(***************************************************************************)
EXTENDS Integers, Sequences, FiniteSets, TLC

VARIABLES
    fs,              \* the configuration directory: file -> [mtime, doc]
    clock,           \* file -> the time of its last event (the program compares
                     \* the times of one file only, so each file counts its own)
    endpoints,       \* ConfigLoader.endpoints
    file_endpoints,  \* ConfigLoader.file_endpoints
    mod_times,       \* ConfigLoader.mod_times
    domain_stats,    \* the global domain_stats
    pc,              \* where monitor_endpoints stands
    session,         \* whether the cycle's aiohttp.ClientSession is open
    tasks,           \* the cycle's check_health coroutines: the endpoint, the
                     \* request sent, the response met, the result or "pending"
    metrics,         \* the Prometheus sink: STATUS, RESPONSE_TIME, STATUS_CODES
    cycle,           \* number of refresh() calls made by the loop
    ret,             \* the value availability_percentage() last returned
    pre              \* history: the loader's state when the last load/refresh began

vars == <<fs, clock, endpoints, file_endpoints, mod_times, domain_stats, pc,
          session, tasks, metrics, cycle, ret, pre>>

----------------------------------------------------------------------------
(* Bounds of the model *)

\* number of file events (writes and deletions) the environment performs
MaxClock == 2

\* number of polling cycles the loop starts under Spec
MaxCycles == 2

\* number of polling cycles the loop starts under CycleSpec
MaxCyclesLong == 3

----------------------------------------------------------------------------
(* Dictionaries: functions over a finite key set *)

Empty == << >>

Put(d, k, v) == [x \in DOMAIN d \cup {k} |-> IF x = k THEN v ELSE d[x]]

Del(d, ks) == [x \in DOMAIN d \ ks |-> d[x]]

------------------------------------------------------------------\* The sequences that list the set S once each: the orders os.listdir may
\* return a directory in.
RECURSIVE Orders(_)
Orders(S) ==
    IF S = {} THEN { << >> }
    ELSE UNION { { <<f>> \o o : o \in Orders(S \ {f}) } : f \in S }

----------
(* The inputs: files, declarations, documents *)

Files == {"f1.yaml", "f2.yaml"}

Names == {"A", "B"}

\* URLs as urlparse sees them: netloc = host ":" port
Url(h, p) == [host |-> h, port |-> p, path |-> "/health"]

\* A declaration is a YAML mapping; a key it lacks is absent from its DOMAIN.
DeclA1 == [name |-> "A", url |-> Url("svc1", 80)]
DeclA2 == [name |-> "A", url |-> Url("svc2", 8080), method |-> "post",
           headers |-> {<<"k", "v">>}, body |-> "b"]
DeclB1 == [name |-> "B", url |-> Url("svc1", 8080), method |-> "get"]
DeclANoUrl == [name |-> "A"]

List(items) == [kind |-> "list", items |-> items]

\* What a file may hold.  "malformed": yaml.safe_load raises YAMLError;
\* "null": an empty document, yaml.safe_load returns None; "unreadable":
\* open() raises PermissionError (the mtime is still readable).
Docs ==
    { List(<< >>), List(<<DeclB1>>), List(<<DeclA1, DeclB1>>), List(<<DeclA2>>),
      List(<<DeclB1, DeclANoUrl>>),
      [kind |-> "malformed"], [kind |-> "null"], [kind |-> "unreadable"] }

\* The names a document declares with every required field.
RECURSIVE DeclaredFrom(_, _)
DeclaredFrom(items, i) ==
    IF i > Len(items) THEN {}
    ELSE (IF {"name", "url"} \subseteq DOMAIN items[i] THEN {items[i].name} ELSE {})
         \cup DeclaredFrom(items, i + 1)

Declared(doc) == IF doc.kind = "list" THEN DeclaredFrom(doc.items, 1) ELSE {}

\* A document the loader can load completely.
Loadable(doc) ==
    /\ doc.kind = "list"
    /\ \A i \in 1..Len(doc.items) : {"name", "url"} \subseteq DOMAIN doc.items[i]

----------------------------------------------------------------------------
(* EndpointConfig *)

get_domain(url) == url.host

Upper(m) ==
    CASE m = "get" -> "GET"
      [] m = "post" -> "POST"
      [] OTHER -> m

EndpointConfig(ep, file_path) ==
    [ name      |-> ep.name,
      url       |-> ep.url,
      method    |-> Upper(IF "method" \in DOMAIN ep THEN ep.method ELSE "GET"),
      headers   |-> IF "headers" \in DOMAIN ep THEN ep.headers ELSE {},
      body      |-> IF "body" \in DOMAIN ep THEN ep.body ELSE "None",
      file_path |-> file_path,
      domain    |-> get_domain(ep.url),
      stats     |-> [up |-> 0, total |-> 0] ]

update_stats(e, result) ==
    [e EXCEPT !.stats = [ total |-> @.total + 1,
                          up    |-> IF result = "UP" THEN @.up + 1 ELSE @.up ]]

\* round(num / den) for den > 0: the nearest integer, a tie going to the
\* even one (the quotient of two ints is the float nearest to the exact
\* value; a tie is exactly representable)
round(num, den) ==
    LET q == num \div den
        r == num % den
    IN IF 2 * r < den THEN q
       ELSE IF 2 * r > den THEN q + 1
       ELSE IF q % 2 = 0 THEN q ELSE q + 1

\* availability_percentage that truncates instead of rounding
availability_percentage_truncated(e) ==
    IF e.stats.total > 0 THEN (100 * e.stats.up) \div e.stats.total ELSE 0

availability_percentage(e) ==
    IF e.stats.total > 0 THEN round(100 * e.stats.up, e.stats.total) ELSE 0

----------------------------------------------------------------------------
(* ConfigLoader.  A loader state L is [endpoints, file_endpoints,          *)
(* mod_times, raised]; raised is TRUE once an exception has left the       *)
(* method, with the mutations made before the raise kept.                  *)

Loader == [endpoints |-> endpoints, file_endpoints |-> file_endpoints,
           mod_times |-> mod_times, raised |-> FALSE]

\* remove_file_endpoints without lines 145-148: the endpoints stay
remove_file_endpoints_tracking_only(L, file_path) ==
    IF file_path \notin DOMAIN L.file_endpoints THEN L
    ELSE [L EXCEPT
            !.file_endpoints = Del(@, {file_path}),
            !.mod_times = Del(@, {file_path})]

remove_file_endpoints(L, file_path) ==
    IF file_path \notin DOMAIN L.file_endpoints THEN L
    ELSE [L EXCEPT
            !.endpoints = Del(@, L.file_endpoints[file_path]),
            !.file_endpoints = Del(@, {file_path}),
            !.mod_times = Del(@, {file_path})]

\* The loop of lines 113-116 from item i on; acc is [endpoints, names, raised].
\* EndpointConfig(**ep) raises TypeError on a declaration without name or url.
RECURSIVE load_items(_, _, _, _)
load_items(acc, items, i, file_path) ==
    IF i > Len(items) THEN acc
    ELSE IF ~({"name", "url"} \subseteq DOMAIN items[i])
         THEN [acc EXCEPT !.raised = TRUE]
         ELSE load_items(
                [acc EXCEPT
                   !.endpoints = Put(@, items[i].name,
                                     EndpointConfig(items[i], file_path)),
                   !.names = @ \cup {items[i].name}],
                items, i + 1, file_path)

\* load_file without lines 119-124: the names the file dropped stay
load_file_keeps_dropped(L, file_path) ==
    LET current_mod_time == fs[file_path].mtime
        doc == fs[file_path].doc
    IN
    IF file_path \in DOMAIN L.mod_times /\ current_mod_time = L.mod_times[file_path]
    THEN L
    ELSE CASE doc.kind = "unreadable" -> [L EXCEPT !.raised = TRUE]
           [] doc.kind = "malformed" -> remove_file_endpoints(L, file_path)
           [] doc.kind = "null" -> [L EXCEPT !.raised = TRUE]
           [] doc.kind = "list" ->
                LET r == load_items([endpoints |-> L.endpoints, names |-> {},
                                     raised |-> FALSE], doc.items, 1, file_path)
                IN
                IF r.raised
                THEN [L EXCEPT !.endpoints = r.endpoints, !.raised = TRUE]
                ELSE [ endpoints      |-> r.endpoints,
                       file_endpoints |-> Put(L.file_endpoints, file_path, r.names),
                       mod_times      |-> Put(L.mod_times, file_path, current_mod_time),
                       raised         |-> FALSE ]

load_file(L, file_path) ==
    LET current_mod_time == fs[file_path].mtime
        doc == fs[file_path].doc
    IN
    IF file_path \in DOMAIN L.mod_times /\ current_mod_time = L.mod_times[file_path]
    THEN L
    ELSE CASE doc.kind = "unreadable" -> [L EXCEPT !.raised = TRUE]
           [] doc.kind = "malformed" -> remove_file_endpoints(L, file_path)
           [] doc.kind = "null" -> [L EXCEPT !.raised = TRUE]
           [] doc.kind = "list" ->
                LET r == load_items([endpoints |-> L.endpoints, names |-> {},
                                     raised |-> FALSE], doc.items, 1, file_path)
                    removed_endpoints ==
                        IF file_path \in DOMAIN L.file_endpoints
                        THEN L.file_endpoints[file_path] \ r.names
                        ELSE {}
                IN
                IF r.raised
                THEN [L EXCEPT !.endpoints = r.endpoints, !.raised = TRUE]
                ELSE [ endpoints      |-> Del(r.endpoints, removed_endpoints),
                       file_endpoints |-> Put(L.file_endpoints, file_path, r.names),
                       mod_times      |-> Put(L.mod_times, file_path, current_mod_time),
                       raised         |-> FALSE ]

\* for file_path in list(self.file_endpoints.keys()): remove the absent ones
RECURSIVE remove_absent(_, _)
remove_absent(L, todo) ==
    IF todo = {} THEN L
    ELSE LET file_path == CHOOSE f \in todo : TRUE
         IN remove_absent(
              IF file_path \notin DOMAIN fs
              THEN remove_file_endpoints(L, file_path) ELSE L,
              todo \ {file_path})

\* load_configs, lines 85-89, from position i of the listing on
RECURSIVE load_listed(_, _, _)
load_listed(L, order, i) ==
    IF i > Len(order) \/ L.raised THEN L
    ELSE load_listed(load_file(L, order[i]), order, i + 1)

load_configs(L, order) ==
    LET M == load_listed(L, order, 1)
    IN IF M.raised THEN M ELSE remove_absent(M, DOMAIN M.file_endpoints)

\* refresh, lines 161-171, from position i of the listing on
RECURSIVE refresh_listed(_, _, _)
refresh_listed(L, order, i) ==
    IF i > Len(order) \/ L.raised THEN L
    ELSE LET file_path == order[i]
             current_mod_time == fs[file_path].mtime
         IN refresh_listed(
              IF file_path \notin DOMAIN L.mod_times
                 \/ current_mod_time # L.mod_times[file_path]
              THEN load_file(L, file_path) ELSE L,
              order, i + 1)

\* refresh that forgets what it had loaded and loads the directory anew
refresh_from_scratch(L, order) ==
    load_configs([endpoints |-> Empty, file_endpoints |-> Empty,
                  mod_times |-> Empty, raised |-> FALSE], order)

refresh(L, order) ==
    LET M == refresh_listed(L, order, 1)
    IN IF M.raised THEN M ELSE remove_absent(M, DOMAIN M.file_endpoints)

------------------------------------------------------------------\* History: the loader's dictionaries as a load or refresh found them; kept
\* until the cycle moves on.
NoStamp == [endpoints |-> Empty, file_endpoints |-> Empty, mod_times |-> Empty]

Stamp(L) == [endpoints |-> L.endpoints, file_endpoints |-> L.file_endpoints,
             mod_times |-> L.mod_times]

----------
(* The initial state: the directory holds any files; nothing is loaded.    *)

\* no call of availability_percentage() has returned
NoReturn == [name |-> "", value |-> 0]

Directories(docs) == UNION { [S -> [mtime : {0}, doc : docs]] : S \in SUBSET Files }

InitWith(docs) ==
    /\ fs \in Directories(docs)
    /\ clock = [f \in Files |-> 0]
    /\ endpoints = Empty
    /\ file_endpoints = Empty
    /\ mod_times = Empty
    /\ domain_stats = Empty
    /\ pc = "init"
    /\ session = FALSE
    /\ tasks = Empty
    /\ metrics = [status |-> Empty, response_time |-> Empty, status_codes |-> Empty]
    /\ cycle = 0
    /\ ret = NoReturn
    /\ pre = NoStamp
----------------------------------------------------------------------------
(* check_health and the metrics sink *)

\* response_time_threshold = 0.5 s and timeout = 1 s, in tenths of a second
ResponseTimeThreshold == 5

RequestTimeout == 10

Statuses == {200, 299, 300}

Elapsed == {1, 5}

\* What the network does to one request: a response, or an exception
\* (a timeout, a refused connection, a DNS failure).
Outcomes ==
    [kind : {"response"}, status : Statuses, elapsed : Elapsed]
    \cup {[kind |-> "exception"]}

\* str(response.status)
Str(n) ==
    CASE n = 200 -> "200"
      [] n = 299 -> "299"
      [] n = 300 -> "300"

Inc(d, k) == Put(d, k, IF k \in DOMAIN d THEN d[k] + 1 ELSE 1)

\* The request check_health sends: session.get(endpoint.url, timeout=1)
request(endpoint) ==
    [method |-> "GET", url |-> endpoint.url, headers |-> {}, body |-> "None",
     timeout |-> RequestTimeout]

\* a coroutine that has not run: nothing sent, nothing received
Unsent == [method |-> "", url |-> "", headers |-> {}, body |-> "", timeout |-> 0]

NoResponse == [kind |-> "none"]

\* check_health with elapsed_time <= response_time_threshold at line 204
check_health_threshold_inclusive(m, endpoint, o) ==
    IF o.kind = "response"
    THEN LET up == 200 <= o.status /\ o.status < 300
                   /\ o.elapsed <= ResponseTimeThreshold
         IN [ result  |-> IF up THEN "UP" ELSE "DOWN",
              request |-> request(endpoint),
              metrics |->
                [ status        |-> Put(m.status, endpoint.name, IF up THEN 1 ELSE 0),
                  response_time |-> Inc(m.response_time, endpoint.name),
                  status_codes  |-> Inc(m.status_codes,
                                        <<endpoint.name, Str(o.status)>>) ] ]
    ELSE [ result  |-> "DOWN",
           request |-> request(endpoint),
           metrics |->
             [ status        |-> Put(m.status, endpoint.name, 0),
               response_time |-> m.response_time,
               status_codes  |-> Inc(m.status_codes, <<endpoint.name, "error">>) ] ]

\* check_health without line 217: an exception is not counted
check_health_error_uncounted(m, endpoint, o) ==
    IF o.kind = "response"
    THEN LET up == 200 <= o.status /\ o.status < 300
                   /\ o.elapsed < ResponseTimeThreshold
         IN [ result  |-> IF up THEN "UP" ELSE "DOWN",
              request |-> request(endpoint),
              metrics |->
                [ status        |-> Put(m.status, endpoint.name, IF up THEN 1 ELSE 0),
                  response_time |-> Inc(m.response_time, endpoint.name),
                  status_codes  |-> Inc(m.status_codes,
                                        <<endpoint.name, Str(o.status)>>) ] ]
    ELSE [ result  |-> "DOWN",
           request |-> request(endpoint),
           metrics |->
             [ status        |-> Put(m.status, endpoint.name, 0),
               response_time |-> m.response_time,
               status_codes  |-> m.status_codes ] ]

\* check_health: [result, metrics, request] for one endpoint and one outcome
check_health(m, endpoint, o) ==
    IF o.kind = "response"
    THEN LET up == 200 <= o.status /\ o.status < 300
                   /\ o.elapsed < ResponseTimeThreshold
         IN [ result  |-> IF up THEN "UP" ELSE "DOWN",
              request |-> request(endpoint),
              metrics |->
                [ status        |-> Put(m.status, endpoint.name, IF up THEN 1 ELSE 0),
                  response_time |-> Inc(m.response_time, endpoint.name),
                  status_codes  |-> Inc(m.status_codes,
                                        <<endpoint.name, Str(o.status)>>) ] ]
    ELSE [ result  |-> "DOWN",
           request |-> request(endpoint),
           metrics |->
             [ status        |-> Put(m.status, endpoint.name, 0),
               response_time |-> m.response_time,
               status_codes  |-> Inc(m.status_codes, <<endpoint.name, "error">>) ] ]

----------------------------------------------------------------------------
(* domain_stats *)

ActiveDomains(eps) == { eps[n].domain : n \in DOMAIN eps }

\* clean_domains that removes nothing
clean_domains_keeps_all(ds, eps) == ds

clean_domains(ds, eps) == Del(ds, DOMAIN ds \ ActiveDomains(eps))

\* record_domain with line 255 under the test of line 256: a DOWN result
\* creates the entry and counts nothing
record_domain_counts_up_only(ds, domain, result) ==
    LET old == IF domain \in DOMAIN ds THEN ds[domain] ELSE [up |-> 0, total |-> 0]
    IN Put(ds, domain, [ total |-> IF result = "UP" THEN old.total + 1 ELSE old.total,
                         up    |-> IF result = "UP" THEN old.up + 1 ELSE old.up ])

\* lines 255-257 for one endpoint: the defaultdict creates the entry at 0/0
record_domain(ds, domain, result) ==
    LET old == IF domain \in DOMAIN ds THEN ds[domain] ELSE [up |-> 0, total |-> 0]
    IN Put(ds, domain, [ total |-> old.total + 1,
                         up    |-> IF result = "UP" THEN old.up + 1 ELSE old.up ])

\* config_loader.endpoints.values(): the dictionary in its iteration order,
\* the same at every iteration while the dictionary is not mutated
values(eps) == CHOOSE order \in Orders(DOMAIN eps) : TRUE

\* zip that pairs the endpoints with the results in reverse order
zip_reversed(names, results) ==
    [i \in 1..(IF Len(names) < Len(results) THEN Len(names) ELSE Len(results))
       |-> <<names[i], results[Len(results) + 1 - i]>>]

\* zip(endpoints, results): the pairs, as many as the shorter of the two
zip(names, results) ==
    [i \in 1..(IF Len(names) < Len(results) THEN Len(names) ELSE Len(results))
       |-> <<names[i], results[i]>>]

\* the loop of lines 252-257 from pair i on
RECURSIVE aggregate(_, _, _, _)
aggregate(eps, ds, pairs, i) ==
    IF i > Len(pairs) THEN [endpoints |-> eps, domain_stats |-> ds]
    ELSE LET n == pairs[i][1]
             result == pairs[i][2]
         IN aggregate(Put(eps, n, update_stats(eps[n], result)),
                      record_domain(ds, eps[n].domain, result),
                      pairs, i + 1)

----------------------------------------------------------------------------
(* The environment: file events, seen by the program at its next refresh   *)
(* and followed while the loop has a refresh to come (cycle < limit).      *)

ProgramVars == <<endpoints, file_endpoints, mod_times, domain_stats, pc,
                 session, tasks, metrics, cycle, ret, pre>>

\* the number of file events so far
RECURSIVE Events(_)
Events(S) ==
    IF S = {} THEN 0
    ELSE LET f == CHOOSE x \in S : TRUE IN clock[f] + Events(S \ {f})

FileWrite(f, doc, limit) ==
    /\ pc = "refresh"
    /\ cycle < limit
    /\ Events(Files) < MaxClock
    /\ clock' = [clock EXCEPT ![f] = @ + 1]
    /\ fs' = Put(fs, f, [mtime |-> clock[f] + 1, doc |-> doc])
    /\ UNCHANGED ProgramVars

FileDelete(f, limit) ==
    /\ pc = "refresh"
    /\ cycle < limit
    /\ Events(Files) < MaxClock
    /\ f \in DOMAIN fs
    /\ clock' = [clock EXCEPT ![f] = @ + 1]
    /\ fs' = Del(fs, {f})
    /\ UNCHANGED ProgramVars

----------------------------------------------------------------------------
(* monitor_endpoints *)

\* config_loader = ConfigLoader(file_path)
Load(order) ==
    /\ pc = "init"
    /\ LET L == load_configs(Loader, order)
       IN /\ endpoints' = L.endpoints
          /\ file_endpoints' = L.file_endpoints
          /\ mod_times' = L.mod_times
          /\ pc' = IF L.raised THEN "crashed" ELSE "refresh"
    /\ pre' = Stamp(Loader)
    /\ UNCHANGED <<fs, clock, domain_stats, session, tasks, metrics, cycle, ret>>

\* Refresh without the test of line 242: an empty endpoint set is polled
Refresh_without_empty_test(order, limit) ==
    /\ pc = "refresh"
    /\ cycle < limit
    /\ cycle' = cycle + 1
    /\ LET L == refresh(Loader, order)
       IN /\ endpoints' = L.endpoints
          /\ file_endpoints' = L.file_endpoints
          /\ mod_times' = L.mod_times
          /\ pc' = IF L.raised THEN "crashed" ELSE "clean"
    /\ pre' = Stamp(Loader)
    /\ UNCHANGED <<fs, clock, domain_stats, session, tasks, metrics, ret>>

\* config_loader.refresh() and the test of line 242
Refresh(order, limit) ==
    /\ pc = "refresh"
    /\ cycle < limit
    /\ cycle' = cycle + 1
    /\ LET L == refresh(Loader, order)
       IN /\ endpoints' = L.endpoints
          /\ file_endpoints' = L.file_endpoints
          /\ mod_times' = L.mod_times
          /\ pc' = IF L.raised THEN "crashed"
                   ELSE IF DOMAIN L.endpoints = {} THEN "stopped"
                   ELSE "clean"
    /\ pre' = Stamp(Loader)
    /\ UNCHANGED <<fs, clock, domain_stats, session, tasks, metrics, ret>>

CleanDomains ==
    /\ pc = "clean"
    /\ domain_stats' = clean_domains(domain_stats, endpoints)
    /\ pc' = "dispatch"
    /\ pre' = NoStamp
    /\ UNCHANGED <<fs, clock, endpoints, file_endpoints, mod_times, session,
                   tasks, metrics, cycle, ret>>

\* lines 248-250: open the session, create one coroutine per endpoint, gather
Dispatch ==
    /\ pc = "dispatch"
    /\ session' = TRUE
    /\ tasks' = [i \in 1..Len(values(endpoints)) |->
                    [endpoint |-> values(endpoints)[i], request |-> Unsent,
                     response |-> NoResponse, result |-> "pending"]]
    /\ pc' = "gather"
    /\ UNCHANGED <<fs, clock, endpoints, file_endpoints, mod_times, domain_stats,
                   metrics, cycle, ret, pre>>

\* one check_health coroutine runs to its return
ProbeDone(i, o) ==
    /\ pc = "gather"
    /\ i \in DOMAIN tasks
    /\ tasks[i].result = "pending"
    /\ LET r == check_health(metrics, endpoints[tasks[i].endpoint], o)
       IN /\ tasks' = [tasks EXCEPT ![i].request = r.request,
                                     ![i].response = o,
                                     ![i].result = r.result]
          /\ metrics' = r.metrics
    /\ UNCHANGED <<fs, clock, endpoints, file_endpoints, mod_times, domain_stats,
                   pc, session, cycle, ret, pre>>

\* Aggregate that does not wait for the coroutines still running
Aggregate_without_barrier ==
    /\ pc = "gather"
    /\ LET results == [i \in DOMAIN tasks |-> tasks[i].result]
           r == aggregate(endpoints, domain_stats,
                          zip(values(endpoints), results), 1)
       IN /\ endpoints' = r.endpoints
          /\ domain_stats' = r.domain_stats
    /\ tasks' = Empty
    /\ session' = FALSE
    /\ pc' = "report"
    /\ UNCHANGED <<fs, clock, file_endpoints, mod_times, metrics, cycle, ret, pre>>

\* gather returns; lines 252-257; the session closes; the coroutines and
\* their results are not read again
Aggregate ==
    /\ pc = "gather"
    /\ \A i \in DOMAIN tasks : tasks[i].result # "pending"
    /\ LET results == [i \in DOMAIN tasks |-> tasks[i].result]
           r == aggregate(endpoints, domain_stats,
                          zip(values(endpoints), results), 1)
       IN /\ endpoints' = r.endpoints
          /\ domain_stats' = r.domain_stats
    /\ tasks' = Empty
    /\ session' = FALSE
    /\ pc' = "report"
    /\ UNCHANGED <<fs, clock, file_endpoints, mod_times, metrics, cycle, ret, pre>>

\* lines 260-263: round(100 * up / total) of every domain raises on total = 0
Report ==
    /\ pc = "report"
    /\ pc' = IF \E d \in DOMAIN domain_stats : domain_stats[d].total = 0
             THEN "crashed" ELSE "sleep"
    /\ UNCHANGED <<fs, clock, endpoints, file_endpoints, mod_times, domain_stats,
                   session, tasks, metrics, cycle, ret, pre>>

\* asyncio.sleep(interval) returns
Wake ==
    /\ pc = "sleep"
    /\ pc' = "refresh"
    /\ UNCHANGED <<fs, clock, endpoints, file_endpoints, mod_times, domain_stats,
                   session, tasks, metrics, cycle, ret, pre>>

\* Interrupt that folds the results the cycle has into the statistics
Interrupt_after_aggregation ==
    /\ pc \in {"gather", "sleep"}
    /\ pc' = "interrupted"
    /\ session' = FALSE
    /\ LET r == aggregate(endpoints, domain_stats,
                          [i \in DOMAIN tasks |->
                              <<tasks[i].endpoint, tasks[i].result>>], 1)
       IN /\ endpoints' = r.endpoints
          /\ domain_stats' = r.domain_stats
    /\ UNCHANGED <<fs, clock, file_endpoints, mod_times, tasks, metrics, cycle,
                   ret, pre>>

\* SIGINT cancels the main task at its suspension point; main() catches it
Interrupt ==
    /\ pc \in {"gather", "sleep"}
    /\ pc' = "interrupted"
    /\ session' = FALSE
    /\ UNCHANGED <<fs, clock, endpoints, file_endpoints, mod_times, domain_stats,
                   tasks, metrics, cycle, ret, pre>>

\* The steps of the program that take no input
Steps ==
    \/ CleanDomains
    \/ Dispatch
    \/ Aggregate
    \/ Report
    \/ Wake
    \/ Interrupt

\* Spec: every kind of document, two cycles, a probe that succeeds in time
\* or raises.
ProbeOutcomes ==
    { [kind |-> "response", status |-> 200, elapsed |-> 1], [kind |-> "exception"] }

Init == InitWith(Docs)

Next ==
    \/ \E f \in Files, doc \in Docs : FileWrite(f, doc, MaxCycles)
    \/ \E f \in Files : FileDelete(f, MaxCycles)
    \/ \E order \in Orders(DOMAIN fs) : Load(order)
    \/ \E order \in Orders(DOMAIN fs) : Refresh(order, MaxCycles)
    \/ \E i \in 1..Cardinality(Names), o \in ProbeOutcomes : ProbeDone(i, o)
    \/ Steps

Spec == Init /\ [][Next]_vars

\* CycleSpec: documents that load, three cycles.
LoadableDocs == { doc \in Docs : Loadable(doc) }

InitCycle == InitWith(LoadableDocs)

NextCycle ==
    \/ \E f \in Files, doc \in LoadableDocs : FileWrite(f, doc, MaxCyclesLong)
    \/ \E f \in Files : FileDelete(f, MaxCyclesLong)
    \/ \E order \in Orders(DOMAIN fs) : Load(order)
    \/ \E order \in Orders(DOMAIN fs) : Refresh(order, MaxCyclesLong)
    \/ \E i \in 1..Cardinality(Names), o \in ProbeOutcomes : ProbeDone(i, o)
    \/ Steps

CycleSpec == InitCycle /\ [][NextCycle]_vars

\* ProbeSpec: documents that load, one cycle, every outcome of a request.
MaxProbeCycles == 1

NextProbe ==
    \/ \E order \in Orders(DOMAIN fs) : Load(order)
    \/ \E order \in Orders(DOMAIN fs) : Refresh(order, MaxProbeCycles)
    \/ \E i \in 1..Cardinality(Names), o \in Outcomes : ProbeDone(i, o)
    \/ Steps

ProbeSpec == InitCycle /\ [][NextProbe]_vars

\* AvailSpec: one endpoint after any number of cycles, some of them UP
\* (f1.yaml declares A, never reloaded), and calls of availability_percentage.
MaxTotal == 201

InitAvail ==
    \E total \in 0..MaxTotal : \E up \in 0..total :
        /\ fs = [f \in {"f1.yaml"} |-> [mtime |-> 0, doc |-> List(<<DeclA1>>)]]
        /\ clock = [f \in Files |-> 0]
        /\ endpoints = [n \in {"A"} |->
                          [EndpointConfig(DeclA1, "f1.yaml") EXCEPT
                             !.stats = [up |-> up, total |-> total]]]
        /\ file_endpoints = [f \in {"f1.yaml"} |-> {"A"}]
        /\ mod_times = [f \in {"f1.yaml"} |-> 0]
        /\ domain_stats = IF total = 0 THEN Empty
                          ELSE [d \in {"svc1"} |-> [up |-> up, total |-> total]]
        /\ pc = IF total = 0 THEN "refresh" ELSE "sleep"
        /\ session = FALSE
        /\ tasks = Empty
        /\ metrics =
             [ status |-> IF total = 0 THEN Empty
                          ELSE [n \in {"A"} |-> IF up = total THEN 1 ELSE 0],
               response_time |-> IF up = 0 THEN Empty ELSE [n \in {"A"} |-> up],
               status_codes |->
                 [k \in (IF up > 0 THEN {<<"A", "200">>} ELSE {})
                        \cup (IF up < total THEN {<<"A", "error">>} ELSE {})
                    |-> IF k[2] = "200" THEN up ELSE total - up] ]
        /\ cycle = total
        /\ ret = NoReturn
        /\ pre = NoStamp

\* endpoint.availability_percentage()
Availability(n) ==
    /\ n \in DOMAIN endpoints
    /\ ret' = [name |-> n, value |-> availability_percentage(endpoints[n])]
    /\ UNCHANGED <<fs, clock, endpoints, file_endpoints, mod_times, domain_stats,
                   pc, session, tasks, metrics, cycle, pre>>

NextAvail == \E n \in Names : Availability(n)

AvailSpec == InitAvail /\ [][NextAvail]_vars

----------------------------------------------------------------------------
(* The claims.  A refresh is judged in the state it leaves: pre holds the   *)
(* loader's dictionaries as the refresh found them, and fs is the directory *)
(* the refresh read (file events wait for the next pc = "refresh").         *)

\* a refresh has returned and the loop has not moved on
AfterRefresh == pc \in {"clean", "stopped"}

\* a load or a refresh has returned at least once and none has raised
Completed == pc \notin {"init", "crashed"}

\* the refresh found source f with another modification time than recorded
Modified(f) ==
    /\ f \in DOMAIN fs
    /\ f \in DOMAIN pre.mod_times
    /\ fs[f].mtime # pre.mod_times[f]

\* the refresh found source f with the recorded modification time
Unmodified(f) ==
    /\ f \in DOMAIN fs
    /\ f \in DOMAIN pre.mod_times
    /\ fs[f].mtime = pre.mod_times[f]

Tracked(fe) == UNION { fe[f] : f \in DOMAIN fe }

NoStats == [up |-> 0, total |-> 0]

\* C1: an endpoint that is in the mapping before a refresh and is still
\* declared by its modified source keeps its up and total counts through
\* the refresh.
C1_StatsSurviveReload ==
    AfterRefresh =>
        \A n \in DOMAIN pre.endpoints \cap DOMAIN endpoints :
            LET f == pre.endpoints[n].file_path
            IN (Modified(f) /\ n \in Declared(fs[f].doc))
               => endpoints[n].stats = pre.endpoints[n].stats

\* C2: after every completed load or refresh the union of the tracked
\* name-sets is the key-set of the endpoint mapping.
C2_TrackedIsMapped == Completed => Tracked(file_endpoints) = DOMAIN endpoints

\* C3: no source load failure aborts the loop; the program never ends on an
\* exception.
C3_NeverAborts == pc # "crashed"

\* the load of source f, first seen or modified, failed in this refresh
Failed(f) ==
    /\ f \in DOMAIN fs
    /\ f \in DOMAIN pre.mod_times => fs[f].mtime # pre.mod_times[f]
    /\ ~Loadable(fs[f].doc)

\* C4: once a refresh has met a changed source whose load fails, the mapping
\* holds no endpoint of that source (none it had contributed, none of the
\* failing document), the source has no tracking record, and the endpoints
\* of the unmodified sources are as they were.
C4_FailedSourceDropped ==
    (AfterRefresh \/ (pc = "crashed" /\ cycle >= 1)) =>
        \A f \in Files : Failed(f) =>
            /\ \A n \in DOMAIN endpoints : endpoints[n].file_path # f
            /\ f \notin DOMAIN file_endpoints
            /\ f \notin DOMAIN mod_times
            /\ \A n \in DOMAIN pre.endpoints :
                 (pre.endpoints[n].file_path # f
                  /\ Unmodified(pre.endpoints[n].file_path))
                 => (n \in DOMAIN endpoints /\ endpoints[n] = pre.endpoints[n])

RECURSIVE NamedFrom(_, _)
NamedFrom(items, i) ==
    IF i > Len(items) THEN {}
    ELSE (IF "name" \in DOMAIN items[i] THEN {items[i].name} ELSE {})
         \cup NamedFrom(items, i + 1)

\* another source than f tracked the name n or holds a declaration of it
SharedName(n, f) ==
    \E g \in Files \ {f} :
        \/ g \in DOMAIN pre.file_endpoints /\ n \in pre.file_endpoints[g]
        \/ g \in DOMAIN fs /\ fs[g].doc.kind = "list"
           /\ n \in NamedFrom(fs[g].doc.items, 1)

C6_DroppedNameRemoved ==
    AfterRefresh =>
        \A f \in DOMAIN pre.file_endpoints :
            (Modified(f) /\ Loadable(fs[f].doc)) =>
                \A n \in pre.file_endpoints[f] \ Declared(fs[f].doc) :
                    /\ n \in DOMAIN endpoints => endpoints[n].file_path # f
                    /\ Declared(fs[f].doc) \subseteq DOMAIN endpoints

RefreshReturns == pc = "refresh" /\ pc' \in {"clean", "stopped"}

\* the step is the aggregation of a cycle
Aggregates == pc = "gather" /\ pc' = "report"

ProbesMade == metrics.status_codes # Empty

EmptyRefreshStops ==
    (RefreshReturns /\ DOMAIN endpoints' = {}) =>
        /\ pc' = "stopped"
        /\ UNCHANGED <<domain_stats, session, tasks, metrics>>

StoppedStays == pc = "stopped" => UNCHANGED ProgramVars

\* C8: a refresh that leaves the endpoint set empty stops the loop in the
\* same step, with no session opened, no probe created and no statistic or
\* metric touched; a stopped program changes nothing any more; a program
\* that stops at its first refresh has made no probe.
C8_EmptyStops ==
    /\ [][EmptyRefreshStops]_vars
    /\ [][StoppedStays]_vars
    /\ [](pc = "stopped" =>
            /\ DOMAIN endpoints = {}
            /\ ~session
            /\ tasks = Empty
            /\ cycle = 1 => (~ProbesMade /\ domain_stats = Empty))

\* the loop stopped on an empty directory at its first refresh
C8_Witness ==
    /\ pc = "stopped"
    /\ cycle = 1
    /\ DOMAIN fs = {}
    /\ ~ProbesMade

Count(S) == Cardinality(S)

StatsOf(ds, d) == IF d \in DOMAIN ds THEN ds[d] ELSE NoStats

\* the coroutines created for endpoint n, and those that returned UP
TasksOf(n) == { i \in DOMAIN tasks : tasks[i].endpoint = n }

UpTasksOf(n) == { i \in TasksOf(n) : tasks[i].result = "UP" }

\* the endpoints mapped to domain d, and those whose probe returned UP
MappedTo(d) == { n \in DOMAIN endpoints : endpoints[n].domain = d }

UpIn(d) == { n \in MappedTo(d) : UpTasksOf(n) # {} }

AggregateCounts ==
    Aggregates =>
        /\ DOMAIN endpoints' = DOMAIN endpoints
        /\ \A n \in DOMAIN endpoints :
             /\ Count(TasksOf(n)) = 1
             /\ endpoints'[n].stats.total = endpoints[n].stats.total + 1
             /\ endpoints'[n].stats.up = endpoints[n].stats.up + Count(UpTasksOf(n))
             /\ [endpoints'[n] EXCEPT !.stats = NoStats]
                  = [endpoints[n] EXCEPT !.stats = NoStats]
        /\ \A d \in ActiveDomains(endpoints) :
             /\ d \in DOMAIN domain_stats'
             /\ domain_stats'[d].total
                  = StatsOf(domain_stats, d).total + Count(MappedTo(d))
             /\ domain_stats'[d].up = StatsOf(domain_stats, d).up + Count(UpIn(d))

CycleKeepsCounts ==
    (pc \in {"clean", "dispatch", "gather"} /\ ~Aggregates) =>
        /\ endpoints' = endpoints
        /\ \A d \in ActiveDomains(endpoints) :
             StatsOf(domain_stats', d) = StatsOf(domain_stats, d)

\* C9: the aggregation of a cycle adds 1 to the total of every configured
\* endpoint and 1 to its up count exactly when its own probe returned UP;
\* it adds to each domain's total the number of endpoints mapped to it and
\* to its up count the number of those whose probe returned UP; from the
\* refresh to the aggregation the endpoints and the counts of the active
\* domains do not change.
C9_CycleCounts == [][AggregateCounts]_vars /\ [][CycleKeepsCounts]_vars

\* two endpoints of one domain, one probed UP and one DOWN, aggregated
C9_Witness ==
    /\ pc = "report"
    /\ \E a, b \in DOMAIN endpoints :
         /\ a # b
         /\ endpoints[a].domain = endpoints[b].domain
         /\ endpoints[a].stats = [up |-> 1, total |-> 1]
         /\ endpoints[b].stats = [up |-> 0, total |-> 1]
         /\ domain_stats[endpoints[a].domain] = [up |-> 1, total |-> 2]

Prunes == pc = "clean" /\ pc' = "dispatch"

PruneRemovesIdle ==
    Prunes => DOMAIN domain_stats' = DOMAIN domain_stats \cap ActiveDomains(endpoints)

AggregateCreatesFresh ==
    Aggregates =>
        \A d \in DOMAIN domain_stats' \ DOMAIN domain_stats :
            domain_stats'[d] = [up |-> Count(UpIn(d)), total |-> Count(MappedTo(d))]

DomainStatsWriters == (domain_stats' # domain_stats) => (Aggregates \/ Prunes)

\* C10: after the aggregation of a cycle the keys of domain_stats are the
\* domains of the configured endpoints; the pruning of a cycle removes every
\* entry of a domain without endpoint; an entry the aggregation creates
\* counts this cycle's probes alone; nothing else changes domain_stats.
C10_DomainKeys ==
    /\ [](pc \in {"report", "sleep"} => DOMAIN domain_stats = ActiveDomains(endpoints))
    /\ [][PruneRemovesIdle]_vars
    /\ [][AggregateCreatesFresh]_vars
    /\ [][DomainStatsWriters]_vars

\* the number of probes of endpoint n the metrics sink has counted
RECURSIVE SumCodes(_, _)
SumCodes(n, keys) ==
    IF keys = {} THEN 0
    ELSE LET k == CHOOSE x \in keys : TRUE
         IN (IF k[1] = n THEN metrics.status_codes[k] ELSE 0)
            + SumCodes(n, keys \ {k})

Probed(n) == SumCodes(n, DOMAIN metrics.status_codes)

\* svc2 is counted, pruned and counted again from 0: B has been the only
\* endpoint of svc1 for three cycles, A was probed in two of them and is
\* the only endpoint of svc2, whose total is 1
C10_Witness ==
    /\ pc = "report"
    /\ cycle = 3
    /\ DOMAIN endpoints = {"A", "B"}
    /\ endpoints["B"].domain = "svc1"
    /\ endpoints["B"].stats.total = 3
    /\ endpoints["A"].domain = "svc2"
    /\ Probed("A") = 2
    /\ DOMAIN domain_stats = {"svc1", "svc2"}
    /\ domain_stats["svc1"].total = 3
    /\ domain_stats["svc2"].total = 1

\* every name the document of a source gives
Named(doc) == IF doc.kind = "list" THEN NamedFrom(doc.items, 1) ELSE {}

\* n was in the mapping when the refresh began and no source of the
\* directory the refresh read gives the name n
Removed(n) ==
    /\ n \in DOMAIN pre.endpoints
    /\ \A g \in DOMAIN fs : n \notin Named(fs[g].doc)

\* n was the only endpoint of its domain, and the refresh maps none to it
SoleOfDomain(n) ==
    /\ \A m \in DOMAIN pre.endpoints \ {n} :
          pre.endpoints[m].domain # pre.endpoints[n].domain
    /\ MappedTo(pre.endpoints[n].domain) = {}

RemovedIsUnmapped ==
    AfterRefresh => \A n \in DOMAIN pre.endpoints : Removed(n) => n \notin DOMAIN endpoints

\* in SLEEP every mapped name is given by a source and every domain_stats
\* entry has an endpoint mapped to its domain
SleepHoldsLiveOnly ==
    pc = "sleep" =>
        /\ \A n \in DOMAIN endpoints : \E g \in DOMAIN fs : n \in Named(fs[g].doc)
        /\ \A d \in DOMAIN domain_stats : MappedTo(d) # {}

\* C11 as claimed: when B, the only endpoint of its domain d, is removed
\* from its source, then after the next refresh B is not in the mapping,
\* and when the loop has left that cycle, to SLEEP or to STOPPED,
\* domain_stats has no entry for d, also when B was the last endpoint.
C11_RemovedEndpointPruned ==
    /\ RemovedIsUnmapped
    /\ SleepHoldsLiveOnly
    /\ pc = "stopped" =>
          \A n \in DOMAIN pre.endpoints :
              (Removed(n) /\ SoleOfDomain(n))
              => pre.endpoints[n].domain \notin DOMAIN domain_stats

StopKeepsDomainStats ==
    (RefreshReturns /\ pc' = "stopped") => domain_stats' = domain_stats

\* C11: when B, the only endpoint of its domain d, is removed from its
\* source, then after the next refresh B is not in the mapping; when the
\* loop leaves that cycle to SLEEP, domain_stats has no entry for d; when B
\* was the last endpoint the loop stops before the pruning and domain_stats
\* is what the last cycle left.
C11_RemovedEndpointPrunedInCycle ==
    /\ []RemovedIsUnmapped
    /\ []SleepHoldsLiveOnly
    /\ [][StopKeepsDomainStats]_vars

\* A was probed once as the only endpoint of svc2 (svc1 counts B's two
\* probes alone), its source dropped it, and the second cycle has pruned
\* svc2 and reached SLEEP
C11_Witness ==
    /\ pc = "sleep"
    /\ cycle = 2
    /\ DOMAIN endpoints = {"B"}
    /\ Probed("A") = 1
    /\ Probed("B") = 2
    /\ DOMAIN domain_stats = {"svc1"}
    /\ domain_stats["svc1"].total = 2

\* the coroutines of the cycle that have run to their return
Done == { i \in DOMAIN tasks : tasks[i].result # "pending" }

\* C12: the request a probe sends carries the method, the headers and the
\* body configured for its endpoint.
C12_RequestAsConfigured ==
    \A i \in Done :
        LET e == endpoints[tasks[i].endpoint]
        IN /\ tasks[i].request.method = e.method
           /\ tasks[i].request.headers = e.headers
           /\ tasks[i].request.body = e.body

\* C13: a probe returns UP exactly when it met a response whose status is
\* in 200..299 and whose elapsed time is below the threshold (an elapsed
\* time equal to the threshold is DOWN); a probe that met an exception
\* returns DOWN, and the loop does not end on it.
C13_Classification ==
    /\ pc # "crashed"
    /\ \A i \in Done :
         LET r == tasks[i].response
         IN /\ tasks[i].result \in {"UP", "DOWN"}
            /\ tasks[i].result = "UP" <=>
                 /\ r.kind = "response"
                 /\ r.status \in 200..299
                 /\ r.elapsed < ResponseTimeThreshold
            /\ r.kind = "exception" => tasks[i].result = "DOWN"

\* one probe met status 299 in time, its sibling met status 200 after
\* exactly the threshold
C13_Witness ==
    \E i, j \in Done :
        /\ tasks[i].response = [kind |-> "response", status |-> 299, elapsed |-> 1]
        /\ tasks[i].result = "UP"
        /\ tasks[j].response = [kind |-> "response", status |-> 200,
                                elapsed |-> ResponseTimeThreshold]
        /\ tasks[j].result = "DOWN"

\* the step is the return of one check_health coroutine
ProbeReturns == pc = "gather" /\ pc' = "gather" /\ tasks' # tasks

CountOf(c, k) == IF k \in DOMAIN c THEN c[k] ELSE 0

ProbeUpdatesMetrics ==
    ProbeReturns =>
        \E i \in DOMAIN tasks :
            /\ tasks[i].result = "pending"
            /\ tasks'[i].result # "pending"
            /\ LET n == tasks[i].endpoint
                   r == tasks'[i].response
                   label == IF r.kind = "response" THEN Str(r.status) ELSE "error"
               IN /\ DOMAIN metrics'.status = DOMAIN metrics.status \cup {n}
                  /\ metrics'.status[n] = (IF tasks'[i].result = "UP" THEN 1 ELSE 0)
                  /\ \A m \in DOMAIN metrics.status \ {n} :
                       metrics'.status[m] = metrics.status[m]
                  /\ \A k \in DOMAIN metrics'.status_codes \cup DOMAIN metrics.status_codes
                              \cup {<<n, label>>} :
                       CountOf(metrics'.status_codes, k)
                         = CountOf(metrics.status_codes, k)
                           + (IF k = <<n, label>> THEN 1 ELSE 0)
                  /\ \A m \in Names :
                       CountOf(metrics'.response_time, m)
                         = CountOf(metrics.response_time, m)
                           + (IF m = n /\ r.kind = "response" THEN 1 ELSE 0)

MetricsWriters == metrics' # metrics => ProbeReturns

\* C14: the return of a probe sets the status gauge of its endpoint to 1 if
\* it returned UP and to 0 otherwise, adds exactly 1 to exactly one
\* status-code counter, the one of the endpoint and the numeric status (of
\* "error" if the probe met an exception), and records a response-time
\* observation exactly if a response was met; nothing else writes metrics.
C14_MetricsFollowResult == [][ProbeUpdatesMetrics]_vars /\ [][MetricsWriters]_vars

\* A met an exception and B a response 200 in time
C14_Witness ==
    /\ pc = "gather"
    /\ metrics.status = [A |-> 0, B |-> 1]
    /\ metrics.status_codes = (<<"A", "error">> :> 1) @@ (<<"B", "200">> :> 1)
    /\ metrics.response_time = [B |-> 1]

Abs(x) == IF x < 0 THEN -x ELSE x

\* a call of availability_percentage has returned
Returned == ret.name \in DOMAIN endpoints

\* the value returned is 0 without probes and else the integer nearest to
\* 100 * up / total (the even one of two), within 0..100
RoundedPercentage ==
    LET up == endpoints[ret.name].stats.up
        total == endpoints[ret.name].stats.total
    IN /\ total = 0 => ret.value = 0
       /\ total > 0 =>
            /\ 2 * Abs(100 * up - ret.value * total) <= total
            /\ 2 * Abs(100 * up - ret.value * total) = total => ret.value % 2 = 0
       /\ ret.value \in 0..100

\* C15 as claimed: availability is round(100 * up / total) for total > 0 and
\* 0 for total = 0, an integer in 0..100, and it is 100 if and only if
\* up = total > 0.
C15_AvailabilityHundredIffAllUp ==
    Returned =>
        /\ RoundedPercentage
        /\ ret.value = 100 <=>
             /\ endpoints[ret.name].stats.up = endpoints[ret.name].stats.total
             /\ endpoints[ret.name].stats.total > 0

\* C15: availability is round(100 * up / total) for total > 0 and 0 for
\* total = 0, an integer in 0..100; it is 100 whenever up = total > 0, and
\* only when 100 * up / total is at least 99.5.
C15_AvailabilityRounded ==
    Returned =>
        LET up == endpoints[ret.name].stats.up
            total == endpoints[ret.name].stats.total
        IN /\ RoundedPercentage
           /\ (up = total /\ total > 0) => ret.value = 100
           /\ ret.value = 100 => (total > 0 /\ 200 * up >= 199 * total)

\* 199 probes of 200 were UP and the availability returned is 100
C15_Witness ==
    /\ Returned
    /\ endpoints[ret.name].stats = [up |-> 199, total |-> 200]
    /\ ret.value = 100

InterruptKeepsState ==
    pc' = "interrupted" =>
        /\ pc \in {"gather", "sleep", "interrupted"}
        /\ UNCHANGED <<endpoints, file_endpoints, mod_times, domain_stats, cycle>>

InterruptedStays == pc = "interrupted" => UNCHANGED ProgramVars

\* C16: the step that delivers the stop signal, during the sleep or while
\* the probes are awaited, changes neither the endpoint mapping nor a
\* count of an endpoint or a domain; after it the program changes nothing
\* and refreshes no more; the results of a cycle interrupted while probes
\* were awaited are in no count (cycle k has counted at most k - 1 probes
\* of an endpoint).
C16_StopMutatesNothing ==
    /\ [][InterruptKeepsState]_vars
    /\ [][InterruptedStays]_vars
    /\ []((pc = "interrupted" /\ tasks # Empty) =>
            /\ ~session
            /\ \A n \in DOMAIN endpoints : endpoints[n].stats.total <= cycle - 1
            /\ \A d \in DOMAIN domain_stats :
                 domain_stats[d].total <= (cycle - 1) * Cardinality(Names))

\* the second cycle was interrupted with a probe returned UP and its sibling
\* in flight; the counts are those of the first cycle
C16_Witness ==
    /\ pc = "interrupted"
    /\ cycle = 2
    /\ \E i, j \in DOMAIN tasks :
         /\ tasks[i].result = "UP"
         /\ tasks[j].result = "pending"
         /\ endpoints[tasks[i].endpoint].stats = [up |-> 0, total |-> 1]

RECURSIVE SumStats(_, _)
SumStats(S, field) ==
    IF S = {} THEN 0
    ELSE LET n == CHOOSE x \in S : TRUE
         IN endpoints[n].stats[field] + SumStats(S \ {n}, field)

\* C17: after every completed cycle, the total of each domain in
\* domain_stats is the sum of the totals of the endpoints now mapped to it,
\* and its up count the sum of their up counts.
C17_DomainIsSumOfEndpoints ==
    pc \in {"report", "sleep"} =>
        \A d \in DOMAIN domain_stats :
            /\ domain_stats[d].total = SumStats(MappedTo(d), "total")
            /\ domain_stats[d].up = SumStats(MappedTo(d), "up")

\* the names declared by the documents of the directory that load
DeclaredSomewhere ==
    UNION { Declared(fs[f].doc) : f \in { g \in DOMAIN fs : Loadable(fs[g].doc) } }

\* C18: after every completed load or refresh the tracked name-sets of
\* distinct sources are pairwise disjoint, every mapped endpoint is tracked
\* by the source it is attributed to, and the mapping has an entry for every
\* name an existing source declares.
C18_OneSourcePerName ==
    (Completed /\ pc # "refresh") =>
        /\ \A f, g \in DOMAIN file_endpoints :
             f # g => file_endpoints[f] \cap file_endpoints[g] = {}
        /\ \A n \in DOMAIN endpoints :
             /\ endpoints[n].file_path \in DOMAIN file_endpoints
             /\ n \in file_endpoints[endpoints[n].file_path]
        /\ DeclaredSomewhere \subseteq DOMAIN endpoints

Dispatches == pc = "dispatch" /\ pc' = "gather"

\* the coroutines of the cycle still running
InFlight == { i \in DOMAIN tasks : tasks[i].result = "pending" }

\* the dispatch starts one probe per configured endpoint, none returned yet
DispatchStartsAll ==
    Dispatches =>
        /\ { tasks'[i].endpoint : i \in DOMAIN tasks' } = DOMAIN endpoints
        /\ Len(tasks') = Cardinality(DOMAIN endpoints)
        /\ \A i \in DOMAIN tasks' : tasks'[i].result = "pending"

\* the aggregation begins when no probe is in flight, and counts a result
\* for every endpoint
AggregateAfterAll ==
    Aggregates =>
        /\ InFlight = {}
        /\ \A n \in DOMAIN endpoints :
             endpoints'[n].stats.total = endpoints[n].stats.total + 1

\* while a probe is in flight the mapping and the counts stay as they are
InFlightKeepsState ==
    InFlight # {} =>
        UNCHANGED <<endpoints, file_endpoints, mod_times, domain_stats>>

\* a probe still in flight can return whatever its siblings met
SiblingsCanReturn ==
    \A i \in InFlight : \A o \in ProbeOutcomes : ENABLED ProbeDone(i, o)

\* C19: the dispatch of a cycle starts the probes of all configured
\* endpoints before any has returned; the aggregation begins only when
\* every probe has returned, and records each; a probe that met an
\* exception leaves its siblings able to return; while a probe is in
\* flight the endpoint mapping and the counts are not changed.
C19_FanOutFanIn ==
    /\ [][DispatchStartsAll]_vars
    /\ [][AggregateAfterAll]_vars
    /\ [][InFlightKeepsState]_vars
    /\ [](pc = "gather" => SiblingsCanReturn)

\* one probe of the cycle met an exception, its sibling returned UP, and
\* both are counted
C19_Witness ==
    /\ pc = "report"
    /\ \E a, b \in DOMAIN endpoints :
         /\ a # b
         /\ endpoints[a].stats = [up |-> 0, total |-> 1]
         /\ endpoints[b].stats = [up |-> 1, total |-> 1]
         /\ <<a, "error">> \in DOMAIN metrics.status_codes
         /\ <<b, "200">> \in DOMAIN metrics.status_codes

Ordered(st) == 0 <= st.up /\ st.up <= st.total

ReportDivides == pc = "report" => pc' # "crashed"

\* C20: in every state every endpoint and every domain_stats entry has
\* 0 <= up <= total; every domain_stats entry has a total of at least 1
\* (an entry is created by an increment of its total), so the report's
\* round(100 * up / total) never divides by zero and the report step never
\* ends the program.
C20_CountsOrdered ==
    /\ [](\A n \in DOMAIN endpoints : Ordered(endpoints[n].stats))
    /\ [](\A d \in DOMAIN domain_stats :
            Ordered(domain_stats[d]) /\ domain_stats[d].total >= 1)
    /\ [][ReportDivides]_vars

\* the report has run over a domain whose probes were all DOWN and a domain
\* whose probes were all UP
C20_Witness ==
    /\ pc = "sleep"
    /\ \E d, e \in DOMAIN domain_stats :
         /\ domain_stats[d].up = 0
         /\ domain_stats[e].up = domain_stats[e].total
         /\ domain_stats[e].total >= 1

====
